---- MODULE Spec2Model ----
(***************************************************************************)
(* Model of vsc.qlint.pbs_option_parser.PbsOptionParser: the parser of PBS *)
(* options (-A -j -k -l -m -M -N -q) with its event log and the job record  *)
(* it fills in.                                                            *)
(*                                                                         *)
(* A Python str is a sequence of one-character strings, so that split,     *)
(* strip, startswith, isdigit, int and the regular expressions are         *)
(* computed character by character as the interpreter computes them.       *)
(* A Python dict is a function whose DOMAIN is the set of keys present.    *)
(***************************************************************************)
EXTENDS Integers, Sequences, FiniteSets, TLC

VARIABLES
    pc,             \* "idle" | "handle" | "check_l" | "raised": where the parser is
    option,         \* the (option, value) pair parse_args is about to dispatch
    events,         \* self._events
    job,            \* self._job: the attributes set so far
    vals,           \* check_l's argument: the list of raw -l values
    i,              \* check_l: number of sub-clauses already processed
    resource_spec,  \* check_l's local dict
    added,          \* the arguments of job.add_resource_specs since the call began
    exc,            \* the exception that ended the last call, or "none"
    produced,       \* history: events registered since the last parse_args began
    job0,           \* history: the job record when the current call began
    dropped,        \* history: how many events the last parse_args discarded
    ncalls          \* history: number of calls made so far

vars == <<pc, option, events, job, vals, i, resource_spec, added, exc,
          produced, job0, dropped, ncalls>>

----------------------------------------------------------------------------
(* Bounds *)

MaxClauses == 2
MaxLineClauses == 2
MaxCalls == 2

----------------------------------------------------------------------------
(* Python str and dict primitives *)

Digits == {"0", "1", "2", "3", "4", "5", "6", "7", "8", "9"}

Letters == {"a", "b", "c", "d", "e", "f", "g", "h", "i", "j", "k", "l", "m",
            "n", "o", "p", "q", "r", "s", "t", "u", "v", "w", "x", "y", "z",
            "A", "B", "C", "D", "E", "F", "G", "H", "I", "J", "K", "L", "M",
            "N", "O", "P", "Q", "R", "S", "T", "U", "V", "W", "X", "Y", "Z"}

WordChars == Letters \cup Digits \cup {"_"}

EmptyDict == <<>>

Put(d, k, v) == [x \in DOMAIN d \cup {k} |-> IF x = k THEN v ELSE d[x]]

RECURSIVE Join(_, _)
Join(parts, sep) ==
    IF parts = <<>> THEN <<>>
    ELSE IF Len(parts) = 1 THEN parts[1]
    ELSE parts[1] \o sep \o Join(Tail(parts), sep)

RECURSIVE Flatten(_)
Flatten(lists) ==
    IF lists = <<>> THEN <<>> ELSE lists[1] \o Flatten(Tail(lists))

startswith(s, prefix) ==
    /\ Len(s) >= Len(prefix)
    /\ SubSeq(s, 1, Len(prefix)) = prefix

isdigit(s) == Len(s) > 0 /\ \A n \in 1..Len(s) : s[n] \in Digits

DigitValue(c) ==
    CASE c = "0" -> 0 [] c = "1" -> 1 [] c = "2" -> 2 [] c = "3" -> 3
      [] c = "4" -> 4 [] c = "5" -> 5 [] c = "6" -> 6 [] c = "7" -> 7
      [] c = "8" -> 8 [] c = "9" -> 9

RECURSIVE int(_)
int(s) ==
    IF Len(s) = 0 THEN 0
    ELSE 10 * int(SubSeq(s, 1, Len(s) - 1)) + DigitValue(s[Len(s)])

RECURSIVE lstrip(_)
lstrip(s) == IF s # <<>> /\ s[1] = " " THEN lstrip(Tail(s)) ELSE s

RECURSIVE rstrip(_)
rstrip(s) ==
    IF s # <<>> /\ s[Len(s)] = " " THEN rstrip(SubSeq(s, 1, Len(s) - 1)) ELSE s

strip(s) == rstrip(lstrip(s))

\* position of the first separator in s, 0 when there is none
RECURSIVE find(_, _, _)
find(s, sep, from) ==
    IF from > Len(s) THEN 0
    ELSE IF s[from] = sep THEN from
    ELSE find(s, sep, from + 1)

\* s.split(sep): every separator splits, empty parts are kept
RECURSIVE split(_, _)
split(s, sep) ==
    LET p == find(s, sep, 1) IN
    IF p = 0 THEN <<s>>
    ELSE <<SubSeq(s, 1, p - 1)>> \o split(SubSeq(s, p + 1, Len(s)), sep)

\* s.split(sep, 1): only the first separator splits
split1(s, sep) ==
    LET p == find(s, sep, 1) IN
    IF p = 0 THEN <<s>>
    ELSE <<SubSeq(s, 1, p - 1), SubSeq(s, p + 1, Len(s))>>

\* the text of a key the code formats into an event name or uses as dict key
NameOf(s) ==
    CASE s = <<"w", "a", "l", "l", "t", "i", "m", "e">> -> "walltime"
      [] s = <<"c", "p", "u", "t">> -> "cput"
      [] s = <<"m", "e", "m">> -> "mem"
      [] s = <<"p", "m", "e", "m">> -> "pmem"
      [] s = <<"n", "o", "d", "e", "s">> -> "nodes"
      [] s = <<"p", "p", "n">> -> "ppn"
      [] s = <<"g", "p", "u", "s">> -> "gpus"

p_walltime == <<"w", "a", "l", "l", "t", "i", "m", "e", "=">>
p_cput == <<"c", "p", "u", "t", "=">>
p_mem == <<"m", "e", "m", "=">>
p_pmem == <<"p", "m", "e", "m", "=">>
p_nodes == <<"n", "o", "d", "e", "s", "=">>
p_ppn == <<"p", "p", "n", "=">>
p_gpus == <<"g", "p", "u", "s", "=">>

----------------------------------------------------------------------------
(* vsc.utils: the unit converters *)

RECURSIVE SecondsOf(_)
SecondsOf(parts) ==
    IF parts = <<>> THEN 0
    ELSE 60 * SecondsOf(SubSeq(parts, 1, Len(parts) - 1)) + int(parts[Len(parts)])

ValidWalltime(time_str) ==
    LET parts == split(time_str, ":") IN
    /\ Len(parts) \in 1..3
    /\ \A n \in 1..Len(parts) : isdigit(parts[n])

\* walltime2seconds raises InvalidWalltimeError unless ValidWalltime
walltime2seconds(time_str) == SecondsOf(split(time_str, ":"))

\* size2bytes(amount, order), counted in units of 1024 bytes: every order
\* is a multiple of 1024, and 1024^4 bytes exceed a 32-bit integer
size2bytes(amount, order) ==
    CASE order = "k" -> amount
      [] order = "m" -> amount * 1024
      [] order = "g" -> amount * 1024 * 1024
      [] order = "t" -> amount * 1024 * 1024 * 1024

----------------------------------------------------------------------------
(* PbsOptionParser.reg_event *)

Event(event, extra) == [event |-> event, extra |-> extra]

reg_event(evs, event, extra) == Append(evs, Event(event, extra))

----------------------------------------------------------------------------
(* PbsOptionParser.check_l: the pure parts *)

\* the generator pipeline of the two for loops: every val_str stripped,
\* split on ',' and every part stripped, in order
SubClauses(val_str) ==
    LET parts == split(strip(val_str), ",") IN
    [n \in 1..Len(parts) |-> strip(parts[n])]

Clauses(vs) == Flatten([n \in 1..Len(vs) |-> SubClauses(vs[n])])

\* number of leading decimal digits of s
RECURSIVE DigitRun(_)
DigitRun(s) ==
    IF s # <<>> /\ s[1] \in Digits THEN 1 + DigitRun(Tail(s)) ELSE 0

\* re.match(r'(\d+)([kmgt])[bw]', attr_value): anchored at the start only
SizeMatch(attr_value) ==
    LET d == DigitRun(attr_value) IN
    /\ d >= 1
    /\ Len(attr_value) >= d + 2
    /\ attr_value[d + 1] \in {"k", "m", "g", "t"}
    /\ attr_value[d + 2] \in {"b", "w"}

SizeAmount(attr_value) == int(SubSeq(attr_value, 1, DigitRun(attr_value)))

SizeOrder(attr_value) == attr_value[DigitRun(attr_value) + 1]

\* the first token of a node spec: a number of nodes, or a host name
NodeSpecHead(first) ==
    IF isdigit(first)
    THEN [features |-> <<>>, nodes |-> int(first)]
    ELSE [features |-> <<>>, nodes |-> 1, host |-> first]

\* one of spec_strs[1:], applied to acc = [node_spec, evs, raised]
NodeSpecToken(acc, spec_str) ==
    IF startswith(spec_str, p_ppn) \/ startswith(spec_str, p_gpus)
    THEN LET kv == split(spec_str, "=") IN
         IF Len(kv) # 2
         THEN [acc EXCEPT !.raised = TRUE]
         ELSE IF isdigit(kv[2])
              THEN [acc EXCEPT !.node_spec = Put(@, NameOf(kv[1]), int(kv[2]))]
              ELSE [acc EXCEPT !.evs = reg_event(@, NameOf(kv[1]) \o "_no_number",
                                                 [number |-> kv[2]])]
    ELSE [acc EXCEPT !.node_spec.features = Append(@, spec_str)]

RECURSIVE NodeSpecTokens(_, _)
NodeSpecTokens(acc, spec_strs) ==
    IF spec_strs = <<>> \/ acc.raised THEN acc
    ELSE NodeSpecTokens(NodeSpecToken(acc, spec_strs[1]), Tail(spec_strs))

\* the body of "for node_spec_str in node_spec_strs", applied to
\* acc = [node_specs, evs, raised]
NodeSpec(acc, node_spec_str) ==
    LET spec_strs == split(node_spec_str, ":")
        r == NodeSpecTokens([node_spec |-> NodeSpecHead(spec_strs[1]),
                             evs |-> acc.evs, raised |-> FALSE],
                            Tail(spec_strs))
    IN  IF r.raised
        THEN [node_specs |-> acc.node_specs, evs |-> r.evs, raised |-> TRUE]
        ELSE [node_specs |-> Append(acc.node_specs, r.node_spec),
              evs |-> r.evs, raised |-> FALSE]

RECURSIVE NodeSpecs(_, _)
NodeSpecs(acc, node_spec_strs) ==
    IF node_spec_strs = <<>> \/ acc.raised THEN acc
    ELSE NodeSpecs(NodeSpec(acc, node_spec_strs[1]), Tail(node_spec_strs))

\* job.add_resource_specs(resource_spec): the job record keeps, per
\* attribute, the value it was last given
add_resource_specs(j, specs) ==
    LET old == IF "resource_specs" \in DOMAIN j THEN j["resource_specs"]
               ELSE EmptyDict
    IN  Put(j, "resource_specs",
            [a \in DOMAIN old \cup DOMAIN specs |->
                IF a \in DOMAIN specs THEN specs[a] ELSE old[a]])

\* a store that keeps the value an attribute already has
store_first_wins(rs, attr_name, value) ==
    IF attr_name \in DOMAIN rs THEN rs ELSE Put(rs, attr_name, value)

\* resource_spec[attr_name] = value
store(rs, attr_name, value) == Put(rs, attr_name, value)

----------------------------------------------------------------------------
(* PbsOptionParser.check_l: the loop, one sub-clause per step *)

InCheckL == pc = "check_l" /\ i < Len(Clauses(vals))

Cur == Clauses(vals)[i + 1]

IsTime(val) == startswith(val, p_walltime) \/ startswith(val, p_cput)

IsSize(val) == startswith(val, p_mem) \/ startswith(val, p_pmem)

IsNodes(val) == startswith(val, p_nodes)

Log(evs) == events' = events \o evs /\ produced' = produced \o evs

\* an exception leaves check_l: nothing after the failing statement runs
Raise(evs) ==
    /\ pc' = "raised"
    /\ exc' = "ValueError"
    /\ Log(evs)
    /\ UNCHANGED <<option, job, vals, i, resource_spec, added, job0, dropped,
                   ncalls>>

StepOver(evs, rs) ==
    /\ i' = i + 1
    /\ resource_spec' = rs
    /\ Log(evs)
    /\ UNCHANGED <<pc, option, job, vals, added, exc, job0, dropped, ncalls>>

l_time ==
    /\ InCheckL
    /\ IsTime(Cur)
    /\ LET kv == split(Cur, "=") IN
       IF Len(kv) # 2
       THEN Raise(<<>>)
       ELSE IF ValidWalltime(kv[2])
            THEN StepOver(<<>>, store(resource_spec, NameOf(kv[1]),
                                      walltime2seconds(kv[2])))
            ELSE StepOver(<<Event("invalid_" \o NameOf(kv[1]) \o "_format",
                                  [time |-> kv[2]])>>,
                          resource_spec)

l_size ==
    /\ InCheckL
    /\ ~IsTime(Cur)
    /\ IsSize(Cur)
    /\ LET kv == split(Cur, "=") IN
       IF Len(kv) # 2
       THEN Raise(<<>>)
       ELSE IF SizeMatch(kv[2])
            THEN StepOver(<<>>, store(resource_spec, NameOf(kv[1]),
                                      size2bytes(SizeAmount(kv[2]),
                                                 SizeOrder(kv[2]))))
            ELSE StepOver(<<Event("invalid_" \o NameOf(kv[1]) \o "_format",
                                  [size |-> kv[2]])>>,
                          resource_spec)

l_nodes ==
    /\ InCheckL
    /\ ~IsTime(Cur)
    /\ ~IsSize(Cur)
    /\ IsNodes(Cur)
    /\ LET kv == split1(Cur, "=")
           r == NodeSpecs([node_specs |-> <<>>, evs |-> <<>>, raised |-> FALSE],
                          split(kv[2], "+"))
       IN  IF r.raised
           THEN Raise(r.evs)
           ELSE StepOver(r.evs, store(resource_spec, "nodes", r.node_specs))

l_unknown ==
    /\ InCheckL
    /\ ~IsTime(Cur)
    /\ ~IsSize(Cur)
    /\ ~IsNodes(Cur)
    /\ StepOver(<<Event("unknown_resource_spec", [spec |-> Cur])>>,
                resource_spec)

\* the last statement: the job record gets the resource specification
l_return ==
    /\ pc = "check_l"
    /\ i = Len(Clauses(vals))
    /\ job' = add_resource_specs(job, resource_spec)
    /\ added' = Append(added, resource_spec)
    /\ pc' = "idle"
    /\ UNCHANGED <<option, events, vals, i, resource_spec, exc, produced,
                   job0, dropped, ncalls>>

\* a call of check_l(vs), by parse_args or by any other caller
Enter_check_l(vs) ==
    /\ vals' = vs
    /\ i' = 0
    /\ resource_spec' = EmptyDict
    /\ added' = <<>>
    /\ exc' = "none"
    /\ pc' = "check_l"

----------------------------------------------------------------------------
(* PbsOptionParser.check_A .. check_N: each yields the job record and the
   events it registers *)

\* re.match(r'[A-Za-z]\w*$', val)
NameMatch(val) ==
    /\ Len(val) >= 1
    /\ val[1] \in Letters
    /\ \A n \in 2..Len(val) : val[n] \in WordChars

AllIn(val, chars) == \A n \in 1..Len(val) : val[n] \in chars

Stored(j, attr, val) == [job |-> Put(j, attr, val), evs |-> <<>>]

Rejected(j, event, extra) == [job |-> j, evs |-> <<Event(event, extra)>>]

check_A(j, val) ==
    IF NameMatch(val)
    THEN Stored(j, "project", val)
    ELSE Rejected(j, "invalid_project_name", [val |-> val])

check_q(j, val) ==
    IF NameMatch(val)
    THEN Stored(j, "queue", val)
    ELSE Rejected(j, "invalid_queue_name", [val |-> val])

check_j(j, val) ==
    IF val = <<"o", "e">> \/ val = <<"e", "o">> \/ val = <<"n">>
    THEN Stored(j, "join", val)
    ELSE Rejected(j, "invalid_join", [val |-> val])

check_k(j, val) ==
    IF (Len(val) >= 1 /\ AllIn(val, {"e", "o"})) \/ val = <<"n">>
    THEN Stored(j, "keep", val)
    ELSE Rejected(j, "invalid_join", [val |-> val])

check_m(j, val) ==
    IF (Len(val) \in 1..3 /\ AllIn(val, {"b", "e", "a"})) \/ val = <<"n">>
    THEN Stored(j, "mail_events", val)
    ELSE Rejected(j, "invalid_mail_event", [val |-> val])

\* validate_email.validate_email(address), the library's syntax check, as
\* far as the addresses of the inputs go: local@domain, both non-empty
validate_email(address) ==
    LET parts == split(address, "@") IN
    /\ Len(parts) = 2
    /\ parts[1] # <<>>
    /\ parts[2] # <<>>

RECURSIVE AddressEvents(_)
AddressEvents(addresses) ==
    IF addresses = <<>> THEN <<>>
    ELSE (IF validate_email(addresses[1]) THEN <<>>
          ELSE <<Event("invalid_mail_address", [address |-> addresses[1]])>>)
         \o AddressEvents(Tail(addresses))

check_M(j, val) ==
    [job |-> Put(j, "mail_addresses", split(val, ",")),
     evs |-> AddressEvents(split(val, ","))]

\* the 14 of r'[A-Za-z]\w{,14}$'
MaxNameRest == 14

check_N(j, val) ==
    IF NameMatch(val) /\ Len(val) - 1 <= MaxNameRest
    THEN Stored(j, "name", val)
    ELSE Rejected(j, "invalid_job_name", [val |-> val])

----------------------------------------------------------------------------
(* PbsOptionParser.parse_args and handle_option *)

ScalarOptions == {"A", "j", "k", "m", "M", "N", "q"}

\* ArgumentParser.convert_arg_line_to_args hands the whole line over as one
\* argument, so parse_known_args finds at most one option in it: "-X" and
\* the rest of the line as its value ("-X=" dropped), no option in a line
\* that does not begin with a known flag, and SystemExit for a flag without
\* a value and for -h.
ParseLine(option_line) ==
    IF Len(option_line) >= 2 /\ option_line[1] = "-"
       /\ option_line[2] \in ScalarOptions \cup {"l", "h"}
    THEN IF Len(option_line) = 2 \/ option_line[2] = "h"
         THEN [kind |-> "exit"]
         ELSE LET value == IF option_line[3] = "="
                           THEN SubSeq(option_line, 4, Len(option_line))
                           ELSE SubSeq(option_line, 3, Len(option_line))
              IN  IF option_line[2] = "l"
                  THEN [kind |-> "option", opt |-> "l", value |-> <<value>>]
                  ELSE IF value = <<>>
                       THEN [kind |-> "none"]
                       ELSE [kind |-> "option", opt |-> option_line[2],
                             value |-> value]
    ELSE [kind |-> "none"]

\* a parse_args that leaves the list of the call before in place
KeepEvents == events

\* self._events = []
ResetEvents == <<>>

NoOption == [kind |-> "none"]

parse_args(option_line) ==
    /\ pc \in {"idle", "raised"}
    /\ ncalls < MaxCalls
    /\ ncalls' = ncalls + 1
    /\ job0' = job
    /\ events' = ResetEvents
    /\ produced' = <<>>
    /\ LET parsed == ParseLine(option_line) IN
       /\ option' = parsed
       /\ pc' = CASE parsed.kind = "exit" -> "raised"
                  [] parsed.kind = "none" -> "idle"
                  [] parsed.kind = "option" -> "handle"
       /\ exc' = IF parsed.kind = "exit" THEN "SystemExit" ELSE "none"
    /\ dropped' = Len(events)
    \* the locals of the call before are gone
    /\ vals' = <<>>
    /\ i' = 0
    /\ resource_spec' = EmptyDict
    /\ added' = <<>>
    /\ UNCHANGED job

\* the dispatch of the options other than -l
check_scalar(opt, j, val) ==
    CASE opt = "A" -> check_A(j, val)
      [] opt = "j" -> check_j(j, val)
      [] opt = "k" -> check_k(j, val)
      [] opt = "m" -> check_m(j, val)
      [] opt = "M" -> check_M(j, val)
      [] opt = "N" -> check_N(j, val)
      [] opt = "q" -> check_q(j, val)

handle_option_scalar ==
    /\ pc = "handle"
    /\ option.opt # "l"
    /\ LET r == check_scalar(option.opt, job, strip(option.value)) IN
       /\ job' = r.job
       /\ Log(r.evs)
    /\ pc' = "idle"
    /\ UNCHANGED <<option, vals, i, resource_spec, added, exc, job0, dropped,
                   ncalls>>

handle_option_l ==
    /\ pc = "handle"
    /\ option.opt = "l"
    /\ Enter_check_l(option.value)
    /\ UNCHANGED <<option, events, job, produced, job0, dropped, ncalls>>

\* check_l(vs) called on its own, once
call_check_l(vs) ==
    /\ pc = "idle"
    /\ ncalls = 0
    /\ ncalls' = 1
    /\ job0' = job
    /\ Enter_check_l(vs)
    /\ UNCHANGED <<option, events, job, produced, dropped>>

----------------------------------------------------------------------------
(* Inputs *)

\* the sub-clauses check_l is called with
LClauses ==
    {<<"w", "a", "l", "l", "t", "i", "m", "e", "=", "1", ":", "3", "0">>,  \* 'walltime=1:30'
     <<"w", "a", "l", "l", "t", "i", "m", "e", "=", "2", "0">>,  \* 'walltime=20'
     <<"w", "a", "l", "l", "t", "i", "m", "e", "=", "1", ":", "x">>,  \* 'walltime=1:x'
     <<"w", "a", "l", "l", "t", "i", "m", "e", "=", "1", "=", "2">>,  \* 'walltime=1=2'
     <<"c", "p", "u", "t", "=", "5">>,  \* 'cput=5'
     <<"m", "e", "m", "=", "4", "k", "b">>,  \* 'mem=4kb'
     <<"m", "e", "m", "=", "2", "g", "b">>,  \* 'mem=2gb'
     <<"m", "e", "m", "=", "4", "g", "b", "x">>,  \* 'mem=4gbx'
     <<"m", "e", "m", "=", "g", "b">>,  \* 'mem=gb'
     <<" ", "p", "m", "e", "m", "=", "1", "t", "w">>,  \* ' pmem=1tw'
     <<"n", "o", "d", "e", "s", "=", "2", ":", "p", "p", "n", "=", "4", "+", "n", "7", ":", "b", "i", "g">>,  \* 'nodes=2:ppn=4+n7:big'
     <<"n", "o", "d", "e", "s", "=", "0">>,  \* 'nodes=0'
     <<"n", "o", "d", "e", "s", "=", "2", ":", "b", "i", "g", ":", "p", "p", "n", "=", "x", ":", "g", "p", "u", "s", "=", "1", ":", "f", "a", "t">>,  \* 'nodes=2:big:ppn=x:gpus=1:fat'
     <<"n", "o", "d", "e", "s", "=", "1", ":", "p", "p", "n", "=", "4", "=", "5">>,  \* 'nodes=1:ppn=4=5'
     <<"f", "o", "o", "=", "b", "a", "r">>,  \* 'foo=bar'
     <<>>}  \* ''

ClauseLists == UNION {[1..n -> LClauses] : n \in 0..MaxClauses}

\* the sub-clauses as one comma-joined -l value, or as one -l value each
InputVals ==
    {<<Join(cs, <<",">>)>> : cs \in ClauseLists \ {<<>>}} \cup ClauseLists

\* the option lines parse_args is called with
ScalarLines ==
    {<<"-", "A", " ", "p", "r", "o", "j", "1">>,  \* '-A proj1'
     <<"-", "A", " ", "1", "p", "r", "o", "j">>,  \* '-A 1proj'
     <<"-", "A", "=", "a", "_", "2", " ">>,  \* '-A=a_2 '
     <<"-", "q", " ", "q", "1">>,  \* '-q q1'
     <<"-", "q", " ", "q", "-", "1">>,  \* '-q q-1'
     <<"-", "j", " ", "o", "e">>,  \* '-j oe'
     <<"-", "j", " ", "n">>,  \* '-j n'
     <<"-", "j", " ", "o">>,  \* '-j o'
     <<"-", "k", " ", "e", "o", "e">>,  \* '-k eoe'
     <<"-", "k", " ", "n">>,  \* '-k n'
     <<"-", "k", " ", "x">>,  \* '-k x'
     <<"-", "m", " ", "a", "b", "e">>,  \* '-m abe'
     <<"-", "m", " ", "n">>,  \* '-m n'
     <<"-", "m", " ", "a", "b", "e", "a">>,  \* '-m abea'
     <<"-", "M", " ", "a", "@", "b">>,  \* '-M a@b'
     <<"-", "M", " ", "a", "@", "b", ",", "c">>,  \* '-M a@b,c'
     <<"-", "M", " ", "x", ",", "y">>,  \* '-M x,y'
     <<"-", "N", " ", "j", "o", "b", "1">>,  \* '-N job1'
     <<"-", "N", " ", "a", "2", "3", "4", "5", "6", "7", "8", "9", "0", "1", "2", "3", "4", "5">>,  \* '-N a23456789012345'
     <<"-", "N", " ", "a", "2", "3", "4", "5", "6", "7", "8", "9", "0", "1", "2", "3", "4", "5", "6">>,  \* '-N a234567890123456'
     <<"-", "N">>,  \* '-N'
     <<"-", "A", "=">>,  \* '-A='
     <<"f", "o", "o">>}  \* 'foo'

LineClauses ==
    {<<"m", "e", "m", "=", "4", "k", "b">>,  \* 'mem=4kb'
     <<"f", "o", "o">>,  \* 'foo'
     <<"w", "a", "l", "l", "t", "i", "m", "e", "=", "1", "=", "2">>,  \* 'walltime=1=2'
     <<"n", "o", "d", "e", "s", "=", "2", ":", "p", "p", "n", "=", "x">>}  \* 'nodes=2:ppn=x'

LLines ==
    {<<"-", "l", " ">> \o Join(cs, <<",">>) :
        cs \in UNION {[1..n -> LineClauses] : n \in 1..MaxLineClauses}}

Lines == ScalarLines \cup LLines

----------------------------------------------------------------------------
(* Specifications *)

Init ==
    /\ pc = "idle"
    /\ option = NoOption
    /\ events = <<>>
    /\ job = EmptyDict
    /\ vals = <<>>
    /\ i = 0
    /\ resource_spec = EmptyDict
    /\ added = <<>>
    /\ exc = "none"
    /\ produced = <<>>
    /\ job0 = EmptyDict
    /\ dropped = 0
    /\ ncalls = 0

\* the parser driven through parse_args, line after line
Next ==
    \/ \E option_line \in Lines : parse_args(option_line)
    \/ handle_option_scalar
    \/ handle_option_l
    \/ l_time
    \/ l_size
    \/ l_nodes
    \/ l_unknown
    \/ l_return

Spec == Init /\ [][Next]_vars

\* one call of check_l on a list of -l values
NextL ==
    \/ \E vs \in InputVals : call_check_l(vs)
    \/ l_time
    \/ l_size
    \/ l_nodes
    \/ l_unknown
    \/ l_return

SpecL == Init /\ [][NextL]_vars

----------------------------------------------------------------------------
(* The vocabulary of the claims *)

TimeNames == {"walltime", "cput"}

SizeNames == {"mem", "pmem"}

AttrNames == TimeNames \cup SizeNames \cup {"nodes"}

Prefix(name) ==
    CASE name = "walltime" -> p_walltime
      [] name = "cput" -> p_cput
      [] name = "mem" -> p_mem
      [] name = "pmem" -> p_pmem
      [] name = "nodes" -> p_nodes
      [] name = "ppn" -> p_ppn
      [] name = "gpus" -> p_gpus

\* the sub-clause (or node token) val is a 'name=' one, and its raw value
Names(val, name) == startswith(val, Prefix(name))

Raw(val, name) == SubSeq(val, Len(Prefix(name)) + 1, Len(val))

\* ^(\d+)([kmgt])[bw]$: the whole value is digits, a unit and b or w
WholeSizeMatch(raw) == SizeMatch(raw) /\ Len(raw) = DigitRun(raw) + 2

NoNodeSpecs == [node_specs |-> <<>>, evs |-> <<>>, raised |-> FALSE]

\* a sub-clause that follows the grammar of its attribute
WellFormed(val, name) ==
    CASE name \in TimeNames -> ValidWalltime(Raw(val, name))
      [] name \in SizeNames -> WholeSizeMatch(Raw(val, name))
      [] name = "nodes" ->
            LET r == NodeSpecs(NoNodeSpecs, split(Raw(val, name), "+"))
            IN  ~r.raised /\ r.evs = <<>>

\* the value a well-formed sub-clause stands for
ValueOf(val, name) ==
    CASE name \in TimeNames -> walltime2seconds(Raw(val, name))
      [] name \in SizeNames -> size2bytes(SizeAmount(Raw(val, name)),
                                          SizeOrder(Raw(val, name)))
      [] name = "nodes" ->
            NodeSpecs(NoNodeSpecs, split(Raw(val, name), "+")).node_specs

\* the sub-clauses check_l has completed, and those it has taken up (the
\* one it raised in included)
Processed == SubSeq(Clauses(vals), 1, i)

TakenUp ==
    SubSeq(Clauses(vals), 1,
           IF pc = "raised" /\ exc = "ValueError" THEN i + 1 ELSE i)

\* the call of check_l is over, by a return or by an exception
CallOver == ncalls > 0 /\ pc \in {"idle", "raised"}

Detail(e) ==
    IF "time" \in DOMAIN e.extra THEN e.extra.time ELSE e.extra.size

IsPrefix(a, b) == Len(a) <= Len(b) /\ SubSeq(b, 1, Len(a)) = a

FieldOf(opt) ==
    CASE opt = "A" -> "project"
      [] opt = "q" -> "queue"
      [] opt = "j" -> "join"
      [] opt = "k" -> "keep"
      [] opt = "m" -> "mail_events"
      [] opt = "M" -> "mail_addresses"
      [] opt = "N" -> "name"

\* the node tokens after the first of one '+'-segment
Tokens(seg) == Tail(split(seg, ":"))

IsKeyToken(tok) == Names(tok, "ppn") \/ Names(tok, "gpus")

KeyOf(tok) == IF Names(tok, "ppn") THEN "ppn" ELSE "gpus"

\* the '<key>_no_number' events the tokens of a nodes= sub-clause call for
NoNumberEvents(val) ==
    LET segs == split(Raw(val, "nodes"), "+") IN
    Flatten([m \in 1..Len(segs) |->
        Flatten([t \in 1..Len(Tokens(segs[m])) |->
            LET tok == Tokens(segs[m])[t] IN
            IF IsKeyToken(tok) /\ ~isdigit(Raw(tok, KeyOf(tok)))
            THEN <<Event(KeyOf(tok) \o "_no_number",
                         [number |-> Raw(tok, KeyOf(tok))])>>
            ELSE <<>>])])

LastNodesClause ==
    LET nodes == SelectSeq(TakenUp, IsNodes) IN nodes[Len(nodes)]

----------------------------------------------------------------------------
(* The claims *)

\* C1: check_l never raises, whatever the text of the sub-clauses: it goes
\* on to the next sub-clause after a malformed one and returns normally.
C1_NeverRaises == pc # "raised"

\* C2: once check_l is over, every malformed walltime/cput/mem/pmem value
\* has exactly one 'invalid_<name>_format' event carrying the raw value (in
\* order), the resource specification was handed to the job, and an
\* attribute given only malformed values is absent from it.
C2_OneEventAndAbsent ==
    CallOver =>
        \A name \in TimeNames \cup SizeNames :
            LET named == SelectSeq(Clauses(vals), LAMBDA v : Names(v, name))
                bad == SelectSeq(named, LAMBDA v : ~WellFormed(v, name))
                evs == SelectSeq(events,
                           LAMBDA e : e.event = "invalid_" \o name \o "_format")
            IN  bad # <<>> =>
                    /\ [n \in 1..Len(evs) |-> Detail(evs[n])]
                         = [n \in 1..Len(bad) |-> Raw(bad[n], name)]
                    /\ Len(added) = 1
                    /\ Len(bad) = Len(named) => name \notin DOMAIN added[1]

\* C3: mem and pmem are set if and only if a sub-clause gave a value that
\* matches ^(\d+)([kmgt])[bw]$ as a whole, to the size of the last such
\* value; every other value has its 'invalid_<name>_format' event.
C3_SetIffWholeMatch ==
    \A name \in SizeNames :
        LET named == SelectSeq(Processed, LAMBDA v : Names(v, name))
            good == SelectSeq(named, LAMBDA v : WholeSizeMatch(Raw(v, name)))
            bad == SelectSeq(named, LAMBDA v : ~WholeSizeMatch(Raw(v, name)))
            evs == SelectSeq(events,
                       LAMBDA e : e.event = "invalid_" \o name \o "_format")
        IN  /\ (name \in DOMAIN resource_spec) <=> (good # <<>>)
            /\ good # <<>> =>
                   resource_spec[name] = ValueOf(good[Len(good)], name)
            /\ [n \in 1..Len(evs) |-> Detail(evs[n])]
                 = [n \in 1..Len(bad) |-> Raw(bad[n], name)]

\* C4: every NodeSpec in the 'nodes' sequence has a count, and the count
\* is at least 1.
C4_CountPositive ==
    "nodes" \in DOMAIN resource_spec =>
        \A n \in 1..Len(resource_spec["nodes"]) :
            /\ "nodes" \in DOMAIN resource_spec["nodes"][n]
            /\ resource_spec["nodes"][n]["nodes"] >= 1

\* C5: events holds exactly the events registered since the most recent
\* parse_args began, in the order they were registered, and within a call
\* the list changes only by growing at its end.
C5_EventsOfLastCall ==
    /\ [](events = produced)
    /\ [][ncalls' = ncalls => IsPrefix(events, events')]_vars

\* C5's case: a second parse_args has finished with events of its own,
\* after a call that had left events behind.
C5_Witness ==
    /\ pc = "idle"
    /\ ncalls >= 2
    /\ dropped > 0
    /\ events # <<>>

\* C6: once check_l has taken up a nodes= sub-clause, 'nodes' holds one
\* NodeSpec per '+'-segment of the last one, in order: the count is the
\* first ':'-token and there is no host if that token is all digits, and
\* otherwise the count is 1 and the host is that token.
C6_OneNodeSpecPerSegment ==
    SelectSeq(TakenUp, IsNodes) # <<>> =>
        LET segs == split(Raw(LastNodesClause, "nodes"), "+") IN
        /\ "nodes" \in DOMAIN resource_spec
        /\ Len(resource_spec["nodes"]) = Len(segs)
        /\ \A m \in 1..Len(segs) :
               LET first == split(segs[m], ":")[1]
                   ns == resource_spec["nodes"][m]
               IN  IF isdigit(first)
                   THEN ns["nodes"] = int(first) /\ "host" \notin DOMAIN ns
                   ELSE /\ ns["nodes"] = 1
                        /\ "host" \in DOMAIN ns
                        /\ ns["host"] = first

\* C7: once check_l has taken up a nodes= sub-clause, in each NodeSpec of
\* the last one 'features' lists the tokens that are not ppn=/gpus= in
\* their order, ppn and gpus hold the integer of their last all-digit
\* token and are unset without one, and every ppn=/gpus= token whose value
\* is not all digits has its '<key>_no_number' event with that value.
C7_TokensOfNodeGroup ==
    LET taken == SelectSeq(TakenUp, IsNodes)
        evs == SelectSeq(events,
                   LAMBDA e : e.event \in {"ppn_no_number", "gpus_no_number"})
    IN  taken # <<>> =>
        LET segs == split(Raw(LastNodesClause, "nodes"), "+") IN
        /\ evs = Flatten([n \in 1..Len(taken) |-> NoNumberEvents(taken[n])])
        /\ "nodes" \in DOMAIN resource_spec
        /\ Len(resource_spec["nodes"]) = Len(segs)
        /\ \A m \in 1..Len(segs) :
               LET ns == resource_spec["nodes"][m]
                   toks == Tokens(segs[m])
               IN  /\ ns["features"]
                        = SelectSeq(toks, LAMBDA tok : ~IsKeyToken(tok))
                   /\ \A key \in {"ppn", "gpus"} :
                          LET set == SelectSeq(toks, LAMBDA tok :
                                         /\ Names(tok, key)
                                         /\ isdigit(Raw(tok, key)))
                          IN  IF set = <<>>
                              THEN key \notin DOMAIN ns
                              ELSE /\ key \in DOMAIN ns
                                   /\ ns[key] = int(Raw(set[Len(set)], key))

\* C8: while check_l works through the sub-clauses the job record is as it
\* was when parse_args began, and once a parse_args of a -l line is over,
\* add_resource_specs was called exactly once, after the last sub-clause,
\* with the complete resource specification.
C8_AddedOnceAtTheEnd ==
    /\ (pc = "check_l" /\ i < Len(Clauses(vals))) =>
           (added = <<>> /\ job = job0)
    /\ (pc \in {"idle", "raised"} /\ option.kind = "option"
            /\ option.opt = "l") =>
           /\ Len(added) = 1
           /\ i = Len(Clauses(vals))
           /\ added[1] = resource_spec
           /\ job = add_resource_specs(job0, resource_spec)

\* C9: at every point of check_l, an attribute whose sub-clauses so far
\* are all well-formed holds the value of the last of them; the
\* resource specification handed to the job is that dict.
C9_LastOccurrenceWins ==
    /\ \A name \in AttrNames :
           LET named == SelectSeq(Processed, LAMBDA v : Names(v, name)) IN
           (named # <<>> /\ \A n \in 1..Len(named) : WellFormed(named[n], name))
               => /\ name \in DOMAIN resource_spec
                  /\ resource_spec[name] = ValueOf(named[Len(named)], name)
    /\ added # <<>> => added = <<resource_spec>>

\* C9's case: check_l has returned from two -l values that give mem two
\* different well-formed sizes, and the job was handed the second.
C9_Witness ==
    /\ pc = "idle"
    /\ Len(vals) = 2
    /\ Len(added) = 1
    /\ LET c == Clauses(vals) IN
       /\ Len(c) = 2
       /\ Names(c[1], "mem") /\ WellFormed(c[1], "mem")
       /\ Names(c[2], "mem") /\ WellFormed(c[2], "mem")
       /\ ValueOf(c[1], "mem") # ValueOf(c[2], "mem")
       /\ added[1]["mem"] = ValueOf(c[2], "mem")

\* C10: once the check of a scalar option is over, either its attribute is
\* set on the job record, nothing else of the record has changed and no
\* event was registered, or the record is as it was and exactly one event
\* was registered.
C10_StoreOrOneEvent ==
    (pc = "idle" /\ option.kind = "option" /\ option.opt \in ScalarOptions) =>
        LET f == FieldOf(option.opt) IN
        \/ /\ events = <<>>
           /\ f \in DOMAIN job
           /\ DOMAIN job = DOMAIN job0 \cup {f}
           /\ \A g \in DOMAIN job0 \ {f} : job[g] = job0[g]
        \/ /\ Len(events) = 1
           /\ job = job0

====
